---- MODULE Spec2Model ----
(***************************************************************************)
(* The booking service of crm/booking.py: a table of Booking rows and the  *)
(* five request handlers over it.  Requests are handled one at a time: a   *)
(* step of Spec is one handler run from start to end, or its response      *)
(* being sent.  SpecConcurrent runs the handlers of two clients at once,   *)
(* each in its own Session: a step is one statement sent to the database   *)
(* with the Python code around it.                                         *)
(*                                                                         *)
(* Times are whole seconds since an arbitrary midnight, durations whole    *)
(* minutes.  All inputs are drawn from a window in which Python's datetime *)
(* arithmetic is defined (no year > 9999).                                 *)
(***************************************************************************)
EXTENDS Integers, FiniteSets, Sequences, TLC

VARIABLES
    store,   \* the booking table: a set of Booking rows
    last,    \* the request handled last and its response
    prev,    \* the table as that request found it (the table itself when
             \* no request is on record)
    deleted, \* when the last request is a create that came right after a
             \* delete: <<d>>, d the id that delete removed and the table it
             \* found; <<>> otherwise
    sessions, \* per client, the request it has in flight and the Session of
              \* that request: where the handler stands and the row it loaded
    read     \* of the last request: the row its Session had loaded, and
             \* whether another request changed the table while it ran

vars == <<store, last, prev, deleted, sessions, read>>

---------------------------------------------------------------------------
(* Bounds of the model *)

MaxId == 2          \* ids 1..MaxId, so at most MaxId rows
Ids == 1 .. MaxId

(* The values requests are made of *)

SecondsPerMinute == 60

Walls == {0, 30, 60}        \* wall-clock times of day, in seconds: 00:00:00,
                            \* 00:00:30 and 00:01:00
Offsets == {0, 120}         \* UTC offsets of aware inputs, in minutes: Z, +02:00
Durations == {-1, 0, 1, 2}  \* duration_minutes: an int, no limit in the schema
Names == {"ann"}
Phones == {"555"}

\* A Python value that may be None is a sequence: <<>> for None, <<v>> for v.
None == <<>>
Some(v) == <<v>>
Optional(V) == {None} \cup {Some(v) : v \in V}

\* A field of a PATCH body: <<>> when the body does not mention it, <<x>> when
\* the body sets it to x (x None for an explicit null).
Unset == <<>>
Given(x) == <<x>>

---------------------------------------------------------------------------
(* datetime *)

\* datetime values a request can carry: naive, or aware with an offset
Datetimes == [wall : Walls, tzinfo : Optional(Offsets)]

\* (variant) the time converted to UTC before the offset is dropped
astimezone_utc_naive(dt) ==
    [wall |-> IF dt.tzinfo = None THEN dt.wall
              ELSE dt.wall - dt.tzinfo[1] * SecondsPerMinute,
     tzinfo |-> None]

\* datetime.replace(tzinfo=None): the wall-clock fields are kept as they are
replace_tzinfo_none(dt) == [wall |-> dt.wall, tzinfo |-> None]

\* datetime + timedelta(minutes=m)
plus_minutes(dt, m) == [wall |-> dt.wall + m * SecondsPerMinute, tzinfo |-> dt.tzinfo]

\* a < b on two naive datetimes
lt(a, b) == a.wall < b.wall

\* strftime("%Y-%m-%d %H:%M"): the minute the time lies in; seconds and offset
\* are not rendered
strftime(dt) == dt.wall \div SecondsPerMinute

---------------------------------------------------------------------------
(* The models *)

Fields == {"customer_name", "phone_number", "booking_time", "duration_minutes"}

\* class Booking(SQLModel, table=True): the rows the model's table can hold
Booking == [id : Ids, customer_name : Names, phone_number : Phones,
            booking_time : [wall : Int, tzinfo : {None}], duration_minutes : Int]

\* class BookingCreate: every field is required or defaulted, none may be null
BookingCreate == [customer_name : Names, phone_number : Phones,
                  booking_time : Datetimes, duration_minutes : Durations]

\* class BookingUpdate: every field may be left out, null, or a value
PatchField(V) == {Unset} \cup {Given(x) : x \in Optional(V)}
BookingUpdate == [customer_name : PatchField(Names),
                  phone_number : PatchField(Phones),
                  booking_time : PatchField(Datetimes),
                  duration_minutes : PatchField(Durations)]

\* BookingPublic.from_orm
from_orm(b) == [id |-> b.id, customer_name |-> b.customer_name,
                phone_number |-> b.phone_number,
                booking_time |-> strftime(b.booking_time),
                duration_minutes |-> b.duration_minutes]

---------------------------------------------------------------------------
(* The table *)

\* session.get(Booking, booking_id): the row set, empty when there is none
session_get(s, booking_id) == {b \in s : b.id = booking_id}

\* (variant) the id taken from the number of rows
next_id_by_count(s) == Cardinality(s) + 1

\* the id SQLite gives an inserted row (INTEGER PRIMARY KEY, no AUTOINCREMENT):
\* one more than the largest id in the table, 1 for an empty table
next_id(s) == IF s = {} THEN 1
              ELSE (CHOOSE i \in {b.id : b \in s} : \A b \in s : b.id <= i) + 1

\* session.exec(select(Booking)).all(): the rows in id order
RECURSIVE select_all(_)
select_all(s) ==
    IF s = {} THEN <<>>
    ELSE LET b == CHOOSE x \in s : \A y \in s : x.id <= y.id
         IN <<b>> \o select_all(s \ {b})

\* the response of a handler: what it returns or raises, and the table it leaves
Response(status, body, s) == [status |-> status, body |-> body, store |-> s]

---------------------------------------------------------------------------
(* POST /bookings/ *)

\* (variant) a create that does not look at the stored rows
create_conflict_none(rows, new_start, new_end) == FALSE

\* (variant) the test written with closed intervals: touching slots collide
create_conflict_closed(rows, new_start, new_end) ==
    \E i \in DOMAIN rows :
        LET existing_start == rows[i].booking_time
            existing_end == plus_minutes(existing_start, rows[i].duration_minutes)
        IN new_start.wall <= existing_end.wall /\ existing_start.wall <= new_end.wall

\* (variant) the test asks only whether the new slot starts inside a stored one
create_conflict_start_inside(rows, new_start, new_end) ==
    \E i \in DOMAIN rows :
        LET existing_start == rows[i].booking_time
            existing_end == plus_minutes(existing_start, rows[i].duration_minutes)
        IN existing_start.wall <= new_start.wall /\ new_start.wall < existing_end.wall

\* the loop over the rows: TRUE when some row makes the handler raise
RECURSIVE create_conflict(_, _, _)
create_conflict(rows, new_start, new_end) ==
    IF rows = <<>> THEN FALSE
    ELSE LET b == Head(rows)
             existing_start == b.booking_time
             existing_end == plus_minutes(existing_start, b.duration_minutes)
         IN IF lt(new_start, existing_end) /\ lt(existing_start, new_end)
            THEN TRUE
            ELSE create_conflict(Tail(rows), new_start, new_end)

\* Booking.model_validate(booking), then add, commit and refresh: the row as
\* the table holds it, with the id the table gave it
create_row(s, booking) ==
    [id |-> next_id(s),
     customer_name |-> booking.customer_name,
     phone_number |-> booking.phone_number,
     booking_time |-> booking.booking_time,
     duration_minutes |-> booking.duration_minutes]

\* (variant) the row is added and committed before the scan rejects it
create_rejected_after_insert(s, booking) ==
    Response(400, "Time slot already booked.", s \cup {create_row(s, booking)})

\* raise HTTPException(400): nothing was added to the session before it
create_rejected(s, booking) == Response(400, "Time slot already booked.", s)

create_booking(s, request) ==
    LET booking == IF request.booking_time.tzinfo # None
                   THEN [request EXCEPT !.booking_time = replace_tzinfo_none(@)]
                   ELSE request
        new_start == booking.booking_time
        new_end == plus_minutes(new_start, booking.duration_minutes)
    IN IF create_conflict(select_all(s), new_start, new_end)
       THEN create_rejected(s, booking)
       ELSE LET db_booking == create_row(s, booking)
            IN Response(200, from_orm(db_booking), s \cup {db_booking})

---------------------------------------------------------------------------
(* GET /bookings/ and GET /bookings/{booking_id} *)

\* (variant) the row is used without the test for None
get_booking_unchecked(s, booking_id) ==
    LET booking == session_get(s, booking_id)
    IN IF booking = {}
       THEN Response(500, "AttributeError", s)
       ELSE Response(200, from_orm(CHOOSE b \in booking : TRUE), s)

\* (variant) the first row alone is read (.first() for .all())
list_bookings_first(s) ==
    LET bookings == select_all(s)
    IN Response(200, [i \in DOMAIN bookings \cap {1} |-> from_orm(bookings[i])], s)

list_bookings(s) ==
    LET bookings == select_all(s)
    IN Response(200, [i \in DOMAIN bookings |-> from_orm(bookings[i])], s)

get_booking(s, booking_id) ==
    LET booking == session_get(s, booking_id)
    IN IF booking = {}
       THEN Response(404, "Booking not found", s)
       ELSE Response(200, from_orm(CHOOSE b \in booking : TRUE), s)

---------------------------------------------------------------------------
(* PATCH /bookings/{booking_id} *)

\* (variant) model_dump() without exclude_unset: a field left out is None
model_dump_all(update) ==
    [f \in Fields |-> IF update[f] = Unset THEN None ELSE update[f][1]]

\* update.model_dump(exclude_unset=True): a dict of the fields the body sets
model_dump(update) ==
    [f \in {g \in Fields : update[g] # Unset} |-> update[f][1]]

\* data.get(key, default)
dict_get(data, key, default) ==
    IF key \in DOMAIN data THEN data[key] ELSE default

\* (variant) the scan made with the slot the row has, not the one it is to get
update_conflict_stored(rows, booking_id, new_start, new_end) ==
    \E i \in DOMAIN rows : \E j \in DOMAIN rows :
        /\ rows[i].id = booking_id /\ rows[j].id # booking_id
        /\ rows[i].booking_time.wall
             < rows[j].booking_time.wall + rows[j].duration_minutes * SecondsPerMinute
        /\ rows[j].booking_time.wall
             < rows[i].booking_time.wall + rows[i].duration_minutes * SecondsPerMinute

\* (variant) an update that does not look at the other rows
update_conflict_unchecked(rows, booking_id, new_start, new_end) == FALSE

\* the loop over the rows, the row being updated skipped
RECURSIVE update_conflict(_, _, _, _)
update_conflict(rows, booking_id, new_start, new_end) ==
    IF rows = <<>> THEN FALSE
    ELSE LET b == Head(rows)
             existing_start == b.booking_time
             existing_end == plus_minutes(existing_start, b.duration_minutes)
         IN IF b.id = booking_id
            THEN update_conflict(Tail(rows), booking_id, new_start, new_end)
            ELSE IF lt(new_start, existing_end) /\ lt(existing_start, new_end)
            THEN TRUE
            ELSE update_conflict(Tail(rows), booking_id, new_start, new_end)

\* (variant) the body read as a whole new record: a field it leaves out falls
\* back to its default (duration_minutes 60, none for the others)
sqlmodel_update_replace(booking, data) ==
    [f \in Fields |-> IF f \in DOMAIN data THEN data[f]
                      ELSE IF f = "duration_minutes" THEN Some(60)
                      ELSE None]

\* booking.sqlmodel_update(data): each key of data is set on the row, whatever
\* its value; the other attributes stay.  The attributes are Python values here
\* (None or Some(v)), since a table model does not validate on assignment.
sqlmodel_update(booking, data) ==
    [f \in Fields |-> IF f \in DOMAIN data THEN data[f] ELSE Some(booking[f])]

\* session.commit() of the changed row: the columns of customer_name,
\* phone_number, booking_time and duration_minutes are NOT NULL, so the UPDATE
\* is refused (IntegrityError) when an attribute is None
commit_refused(attrs) == \E f \in Fields : attrs[f] = None

\* the row after commit and refresh
updated_row(booking, attrs) ==
    [id |-> booking.id,
     customer_name |-> attrs.customer_name[1],
     phone_number |-> attrs.phone_number[1],
     booking_time |-> attrs.booking_time[1],
     duration_minutes |-> attrs.duration_minutes[1]]

\* session.add(booking); session.commit(): the one changed row is written
commit_update(s, booking, row) == (s \ {booking}) \cup {row}

\* (variant) the fields are written and committed before the scan rejects them
update_rejected_after_write(s, booking, data) ==
    LET attrs == sqlmodel_update(booking, data)
    IN Response(400, "Time slot already booked.",
                IF commit_refused(attrs) THEN s
                ELSE commit_update(s, booking, updated_row(booking, attrs)))

\* raise HTTPException(400): the row was not touched before it
update_rejected(s, booking, data) == Response(400, "Time slot already booked.", s)

update_booking(s, booking_id, update) ==
    LET found == session_get(s, booking_id)
    IN IF found = {} THEN Response(404, "Booking not found", s)
       ELSE
       LET booking == CHOOSE b \in found : TRUE
           dumped == model_dump(update)
       IN IF "booking_time" \in DOMAIN dumped /\ dumped.booking_time = None
          THEN \* None.tzinfo
               Response(500, "AttributeError", s)
          ELSE
          LET data == IF "booking_time" \in DOMAIN dumped
                         /\ dumped.booking_time[1].tzinfo # None
                      THEN [dumped EXCEPT !.booking_time =
                                Some(replace_tzinfo_none(@[1]))]
                      ELSE dumped
              new_start == dict_get(data, "booking_time", Some(booking.booking_time))
              new_duration == dict_get(data, "duration_minutes",
                                       Some(booking.duration_minutes))
          IN IF new_duration = None
             THEN \* timedelta(minutes=None)
                  Response(500, "TypeError", s)
             ELSE
             LET new_end == plus_minutes(new_start[1], new_duration[1])
             IN IF update_conflict(select_all(s), booking_id, new_start[1], new_end)
                THEN update_rejected(s, booking, data)
                ELSE
                LET attrs == sqlmodel_update(booking, data)
                IN IF commit_refused(attrs)
                   THEN Response(500, "IntegrityError", s)
                   ELSE LET row == updated_row(booking, attrs)
                        IN Response(200, from_orm(row), commit_update(s, booking, row))

---------------------------------------------------------------------------
(* DELETE /bookings/{booking_id} *)

\* (variant) a delete that answers ok and leaves the row in the table
delete_booking_kept(s, booking_id) ==
    LET booking == session_get(s, booking_id)
    IN IF booking = {}
       THEN Response(404, "Booking not found", s)
       ELSE Response(200, [ok |-> TRUE], s)

delete_booking(s, booking_id) ==
    LET booking == session_get(s, booking_id)
    IN IF booking = {}
       THEN Response(404, "Booking not found", s)
       ELSE Response(200, [ok |-> TRUE], s \ booking)

---------------------------------------------------------------------------
(* The service: one request at a time *)

NoRequest == [op |-> "none", id |-> 0, body |-> <<>>]
Idle == [request |-> NoRequest, status |-> 0, response |-> <<>>]

\* get_session: the clients whose requests can be in flight together, and a
\* client with no request in flight
Clients == {"c1", "c2"}
Closed == [pc |-> "closed", request |-> NoRequest, booking |-> {}, fresh |-> TRUE]
NoRead == [loaded |-> {}, interleaved |-> FALSE]

\* a delete that succeeded: the request a create may follow at once
Deleted == last.request.op = "delete" /\ last.status = 200

\* the handler ran to its end: the table it leaves, and what the client gets
Handled(request, response) ==
    /\ store' = response.store
    /\ last' = [request |-> request, status |-> response.status,
                response |-> response.body]
    /\ prev' = store
    /\ deleted' = IF request.op = "create" /\ Deleted
                  THEN <<[id |-> last.request.id, table |-> prev]>>
                  ELSE <<>>
    /\ read' = NoRead
    /\ UNCHANGED sessions

Init ==
    /\ store = {}
    /\ last = Idle
    /\ prev = {}
    /\ deleted = <<>>
    /\ sessions = [c \in Clients |-> Closed]
    /\ read = NoRead

\* Requests are taken one at a time: a handler runs when the one before it has
\* ended.  The record of that one is dropped by Respond before the next
\* request is taken, except that a create may come right after a delete, that
\* delete then being kept in deleted.
CreateBooking ==
    /\ last = Idle \/ Deleted
    /\ next_id(store) <= MaxId
    /\ \E body \in BookingCreate :
        Handled([op |-> "create", id |-> 0, body |-> body],
                create_booking(store, body))

ListBookings ==
    /\ last = Idle
    /\ Handled([op |-> "list", id |-> 0, body |-> <<>>], list_bookings(store))

GetBooking ==
    /\ last = Idle
    /\ \E booking_id \in Ids :
        Handled([op |-> "get", id |-> booking_id, body |-> <<>>],
                get_booking(store, booking_id))

UpdateBooking ==
    /\ last = Idle
    /\ \E booking_id \in Ids, body \in BookingUpdate :
        Handled([op |-> "update", id |-> booking_id, body |-> body],
                update_booking(store, booking_id, body))

DeleteBooking ==
    /\ last = Idle
    /\ \E booking_id \in Ids :
        Handled([op |-> "delete", id |-> booking_id, body |-> <<>>],
                delete_booking(store, booking_id))

\* the response is sent and the request's session is closed (get_session)
Respond ==
    /\ last # Idle
    /\ last' = Idle
    /\ prev' = store
    /\ deleted' = <<>>
    /\ read' = NoRead
    /\ UNCHANGED <<store, sessions>>

Next ==
    \/ CreateBooking
    \/ ListBookings
    \/ GetBooking
    \/ UpdateBooking
    \/ DeleteBooking
    \/ Respond

Spec == Init /\ [][Next]_vars

---------------------------------------------------------------------------
(* The service with two requests in flight                                 *)
(*                                                                         *)
(* The handlers are plain functions, so each request runs in a thread of   *)
(* its own with a Session of its own.  A Session reads in autocommit and   *)
(* opens its transaction at the first INSERT, UPDATE or DELETE, which      *)
(* session.commit() sends and commits together: a handler is a sequence of *)
(* database statements, and the statements of two handlers interleave.     *)

\* the values the interleaved requests are made of: two starts a minute
\* apart and two lengths, so that slots can touch, overlap or coincide
RacingWalls == {0, 60}
RacingDurations == {1, 2}
RacingCreate == {b \in BookingCreate : /\ b.booking_time.tzinfo = None
                                       /\ b.booking_time.wall \in RacingWalls
                                       /\ b.duration_minutes \in RacingDurations}
RacingUpdate ==
    {u \in BookingUpdate :
        /\ u.customer_name = Unset /\ u.phone_number = Unset
        /\ u.booking_time \in
             {Unset} \cup {Given(Some([wall |-> w, tzinfo |-> None])) : w \in RacingWalls}
        /\ u.duration_minutes \in
             {Unset} \cup {Given(Some(d)) : d \in RacingDurations}}

\* create_booking up to the scan: the body with its offset dropped
create_normalize(request) ==
    IF request.booking_time.tzinfo # None
    THEN [request EXCEPT !.booking_time = replace_tzinfo_none(@)]
    ELSE request

\* update_booking from model_dump to the end of the scan, on the row the
\* Session loaded and the table as the scan finds it: the error it raises, or
\* status 0 and the data to write
update_scan(s, booking, update) ==
    LET dumped == model_dump(update)
    IN IF "booking_time" \in DOMAIN dumped /\ dumped.booking_time = None
       THEN Response(500, "AttributeError", s)
       ELSE
       LET data == IF "booking_time" \in DOMAIN dumped
                      /\ dumped.booking_time[1].tzinfo # None
                   THEN [dumped EXCEPT !.booking_time =
                             Some(replace_tzinfo_none(@[1]))]
                   ELSE dumped
           new_start == dict_get(data, "booking_time", Some(booking.booking_time))
           new_duration == dict_get(data, "duration_minutes",
                                    Some(booking.duration_minutes))
       IN IF new_duration = None
          THEN Response(500, "TypeError", s)
          ELSE IF update_conflict(select_all(s), booking.id, new_start[1],
                                  plus_minutes(new_start[1], new_duration[1]))
          THEN update_rejected(s, booking, data)
          ELSE Response(0, data, s)

\* (variant) the UPDATE names every key of the body, changed or not
flush_columns_all(booking, data) == DOMAIN data

\* the columns the UPDATE of session.commit() names: the attributes whose
\* value is no longer the one the Session loaded.  An attribute set to the
\* value it had is not written.
flush_columns(booking, data) ==
    {f \in DOMAIN data : data[f] # Some(booking[f])}

\* update_booking from sqlmodel_update to the end, on the row the Session
\* loaded and the table as the commit finds it.  The UPDATE is sent for the
\* changed columns of the row that has the id now; it fails when a value is
\* None (IntegrityError) or no row has the id (StaleDataError), and so does
\* the refresh of a row that is gone.
update_flush(s, booking, data) ==
    LET attrs == sqlmodel_update(booking, data)
        columns == flush_columns(booking, data)
        current == session_get(s, booking.id)
    IN IF \E f \in columns : attrs[f] = None
       THEN Response(500, "IntegrityError", s)
       ELSE IF current = {}
       THEN Response(500, IF columns = {} THEN "InvalidRequestError"
                          ELSE "StaleDataError", s)
       ELSE LET stored == CHOOSE b \in current : TRUE
                row == [f \in Fields \cup {"id"} |->
                          IF f \in columns THEN attrs[f][1] ELSE stored[f]]
            IN Response(200, from_orm(row),
                        IF columns = {} THEN s ELSE commit_update(s, stored, row))

\* delete_booking from session.delete to the end: the DELETE removes the row
\* that has the id now; one that matches no row is only warned about
delete_flush(s, booking) == Response(200, [ok |-> TRUE], s \ session_get(s, booking.id))

\* a handler goes on to its next statement
Advance(c, session) ==
    /\ sessions' = [sessions EXCEPT ![c] = session]
    /\ UNCHANGED <<store, last, prev, deleted, read>>

\* a handler ends: the table it leaves and what the client gets.  A request
\* still in flight whose table this one changed no longer runs alone.
Ended(c, request, response) ==
    /\ store' = response.store
    /\ last' = [request |-> request, status |-> response.status,
                response |-> response.body]
    /\ prev' = store
    /\ deleted' = <<>>
    /\ read' = [loaded |-> sessions[c].booking,
                interleaved |-> ~sessions[c].fresh]
    /\ sessions' = [d \in Clients |->
                      IF d = c THEN Closed
                      ELSE IF sessions[d].pc # "closed" /\ response.store # store
                      THEN [sessions[d] EXCEPT !.fresh = FALSE]
                      ELSE sessions[d]]

\* POST: the SELECT and the loop over its rows
PostScan(c) ==
    /\ last = Idle
    /\ sessions[c].pc = "closed"
    /\ next_id(store) <= MaxId
    /\ \E body \in RacingCreate :
        LET request == [op |-> "create", id |-> 0, body |-> body]
            booking == create_normalize(body)
            new_start == booking.booking_time
            new_end == plus_minutes(new_start, booking.duration_minutes)
        IN IF create_conflict(select_all(store), new_start, new_end)
           THEN Ended(c, request, create_rejected(store, booking))
           ELSE Advance(c, [pc |-> "insert", request |-> request,
                            booking |-> {}, fresh |-> TRUE])

\* POST: the INSERT and its commit
PostCommit(c) ==
    /\ last = Idle
    /\ sessions[c].pc = "insert"
    /\ next_id(store) <= MaxId
    /\ LET db_booking == create_row(store, create_normalize(sessions[c].request.body))
       IN Ended(c, sessions[c].request,
                Response(200, from_orm(db_booking), store \cup {db_booking}))

\* PATCH: session.get
PatchGet(c) ==
    /\ last = Idle
    /\ sessions[c].pc = "closed"
    /\ \E booking_id \in Ids, body \in RacingUpdate :
        LET request == [op |-> "update", id |-> booking_id, body |-> body]
            booking == session_get(store, booking_id)
        IN IF booking = {}
           THEN Ended(c, request, Response(404, "Booking not found", store))
           ELSE Advance(c, [pc |-> "loaded", request |-> request,
                            booking |-> booking, fresh |-> TRUE])

\* PATCH: the SELECT and the loop over its rows.  The row loaded by
\* session.get is not read again: the Session keeps the attributes it has.
PatchScan(c) ==
    /\ last = Idle
    /\ sessions[c].pc = "loaded"
    /\ LET booking == CHOOSE b \in sessions[c].booking : TRUE
           scanned == update_scan(store, booking, sessions[c].request.body)
       IN IF scanned.status # 0
          THEN Ended(c, sessions[c].request, scanned)
          ELSE Advance(c, [sessions[c] EXCEPT !.pc = "checked"])

\* PATCH: the UPDATE, its commit and the refresh
PatchCommit(c) ==
    /\ last = Idle
    /\ sessions[c].pc = "checked"
    /\ LET booking == CHOOSE b \in sessions[c].booking : TRUE
           data == update_scan({}, booking, sessions[c].request.body).body
       IN Ended(c, sessions[c].request, update_flush(store, booking, data))

\* DELETE: session.get
DeleteGet(c) ==
    /\ last = Idle
    /\ sessions[c].pc = "closed"
    /\ \E booking_id \in Ids :
        LET request == [op |-> "delete", id |-> booking_id, body |-> <<>>]
            booking == session_get(store, booking_id)
        IN IF booking = {}
           THEN Ended(c, request, Response(404, "Booking not found", store))
           ELSE Advance(c, [pc |-> "delete", request |-> request,
                            booking |-> booking, fresh |-> TRUE])

\* DELETE: the DELETE and its commit
DeleteCommit(c) ==
    /\ last = Idle
    /\ sessions[c].pc = "delete"
    /\ Ended(c, sessions[c].request,
             delete_flush(store, CHOOSE b \in sessions[c].booking : TRUE))

\* GET of the list: one SELECT, which sees the table as it is at that moment
ListConcurrent(c) ==
    /\ last = Idle
    /\ sessions[c].pc = "closed"
    /\ Ended(c, [op |-> "list", id |-> 0, body |-> <<>>], list_bookings(store))

NextConcurrent ==
    \/ \E c \in Clients : PostScan(c)
    \/ \E c \in Clients : PostCommit(c)
    \/ \E c \in Clients : PatchGet(c)
    \/ \E c \in Clients : PatchScan(c)
    \/ \E c \in Clients : PatchCommit(c)
    \/ \E c \in Clients : DeleteGet(c)
    \/ \E c \in Clients : DeleteCommit(c)
    \/ \E c \in Clients : ListConcurrent(c)
    \/ Respond

SpecConcurrent == Init /\ [][NextConcurrent]_vars

---------------------------------------------------------------------------
(* What the claims speak of *)

Request == last.request
Op == last.request.op

\* the ids of the rows of a table
IdsOf(s) == {b.id : b \in s}

\* the slot of a row, [start, end), in seconds
Start(b) == b.booking_time.wall
End(b) == b.booking_time.wall + b.duration_minutes * SecondsPerMinute

\* the half-open overlap test on two slots
Overlap(s1, e1, s2, e2) == s1 < e2 /\ s2 < e1

\* the rows of table s that overlap the slot [start, end), row `except` aside
Overlapping(s, start, end, except) ==
    {b \in s : b.id # except /\ Overlap(start, end, Start(b), End(b))}

\* the slot a create request asks for
AskedStart == Request.body.booking_time.wall
AskedEnd == AskedStart + Request.body.duration_minutes * SecondsPerMinute

\* the row a create request asks for, were it given id i
AskedRow(i) ==
    [id |-> i,
     customer_name |-> Request.body.customer_name,
     phone_number |-> Request.body.phone_number,
     booking_time |-> [wall |-> AskedStart, tzinfo |-> None],
     duration_minutes |-> Request.body.duration_minutes]

---------------------------------------------------------------------------
(* C1: whatever requests were handled, one at a time, from the empty table,  *)
(* no two stored bookings with different ids overlap:                        *)
(* NOT (A.start < B.end AND B.start < A.end).                                *)
C1_NoOverlap ==
    \A A \in store : \A B \in store :
        A.id # B.id => ~(Start(A) < End(B) /\ Start(B) < End(A))

\* two bookings are stored, the last request an update that moved one of them
C1_Witness ==
    /\ Op = "update" /\ last.status = 200
    /\ Cardinality(store) = 2
    /\ \E b \in store : \E a \in prev :
          a.id = b.id /\ (Start(a) # Start(b) \/ End(a) # End(b))

(* C2: create_booking succeeds, inserting the record, if and only if no      *)
(* stored booking overlaps the candidate under the half-open test; an        *)
(* overlapping candidate is rejected with 400, a touching one is accepted.   *)
C2_CreateIffFree ==
    Op = "create" =>
        /\ last.status \in {200, 400}
        /\ last.status = 200 <=> Overlapping(prev, AskedStart, AskedEnd, 0) = {}
        /\ last.status = 200 =>
              \E i \in Ids : i \notin {b.id : b \in prev}
                              /\ store = prev \cup {AskedRow(i)}

\* a create whose slot starts where a stored slot of positive length ends
C2_Witness ==
    /\ Op = "create" /\ last.status = 200
    /\ \E b \in prev : Start(b) < End(b) /\ End(b) = AskedStart
                         /\ AskedStart < AskedEnd

(* C3: a create_booking rejected with Conflict (400) leaves the table as it  *)
(* was: the same bookings with the same fields, and no id taken.             *)
C3_RejectedCreateNoMutation ==
    (Op = "create" /\ last.status = 400) => store = prev

\* a create rejected because it overlaps a stored booking
C3_Witness ==
    /\ Op = "create" /\ last.status = 400
    /\ Overlapping(prev, AskedStart, AskedEnd, 0) # {}

---------------------------------------------------------------------------
(* PATCH requests, as the claims speak of them *)

\* the rows the request's id names, in the table the request found
Target == {b \in prev : b.id = Request.id}

\* the same rows after the request
TargetAfter == {b \in store : b.id = Request.id}

\* the body sets the field, and to a value that is not null
Supplied(f) == Request.body[f] # Unset /\ Request.body[f] # Given(None)

\* the body sets the field to null
Nulled(f) == Request.body[f] = Given(None)

\* the effective slot of an update of row a: a supplied value, else the stored
EffectiveStart(a) ==
    IF Supplied("booking_time") THEN Request.body.booking_time[1][1].wall
    ELSE Start(a)
EffectiveDuration(a) ==
    IF Supplied("duration_minutes") THEN Request.body.duration_minutes[1][1]
    ELSE a.duration_minutes
EffectiveEnd(a) == EffectiveStart(a) + EffectiveDuration(a) * SecondsPerMinute

\* no other stored booking overlaps the effective slot
EffectiveFree(a) ==
    Overlapping(prev, EffectiveStart(a), EffectiveEnd(a), a.id) = {}

(* C4: update_booking on an existing id checks the effective slot (supplied  *)
(* booking_time and duration_minutes, else the stored ones) against every    *)
(* stored booking but the one updated, and succeeds if and only if none of   *)
(* them overlaps it.  Stated for the bodies whose two time fields are not    *)
(* null, where the effective slot is plain.                                  *)
C4_UpdateIffFree ==
    (Op = "update" /\ ~Nulled("booking_time") /\ ~Nulled("duration_minutes")) =>
        \A a \in Target : last.status = 200 <=> EffectiveFree(a)

(* C5: an update_booking rejected with NotFound (404) or Conflict (400)      *)
(* changes nothing: every stored booking keeps its field values.             *)
C5_RejectedUpdateNoMutation ==
    (Op = "update" /\ last.status \in {400, 404}) => store = prev

\* an update rejected because its effective slot overlaps another booking
C5_Witness ==
    /\ Op = "update" /\ last.status = 400
    /\ \E a \in Target : ~EffectiveFree(a) /\ EffectiveStart(a) # Start(a)

(* C6: a successful update_booking changes, on the row it names, the fields  *)
(* the body supplies and no others; the row keeps its id and every other     *)
(* row stays as it was.                                                      *)
C6_UpdateFrame ==
    (Op = "update" /\ last.status = 200) =>
        \E a \in prev : \E b \in store :
            /\ a.id = Request.id /\ b.id = a.id
            /\ store \ {b} = prev \ {a}
            /\ \A f \in Fields : Request.body[f] = Unset => b[f] = a[f]
            /\ \A f \in Fields \ {"booking_time"} :
                   Supplied(f) => b[f] = Request.body[f][1][1]
            /\ Supplied("booking_time") =>
                   b.booking_time.wall = Request.body.booking_time[1][1].wall

\* an update of one of two rows that sets the start alone, to a new value
C6_Witness ==
    /\ Op = "update" /\ last.status = 200
    /\ Cardinality(prev) = 2
    /\ Supplied("booking_time")
    /\ \A f \in Fields \ {"booking_time"} : Request.body[f] = Unset
    /\ store # prev

(* C7: get_booking, update_booking and delete_booking on an id that names no *)
(* stored booking answer NotFound (404), not a server error, and leave the   *)
(* table as it was.                                                          *)
C7_NotFound ==
    (Op \in {"get", "update", "delete"} /\ Target = {}) =>
        last.status = 404 /\ store = prev

\* a get of an id that is not in a table that holds another booking
C7_Witness ==
    /\ Op = "get" /\ Target = {} /\ prev # {}
    /\ last.status = 404

(* C8: an update_booking on an existing id, whatever body the BookingUpdate  *)
(* schema accepts (fields left out, given, or null), ends with the updated   *)
(* projection (200) or with Conflict (400), never with a server error.       *)
C8_UpdateTwoOutcomes ==
    (Op = "update" /\ Target # {}) => last.status \in {200, 400}

(* C9: after a successful delete_booking, a create_booking with the deleted  *)
(* booking's booking_time and duration_minutes succeeds whenever no          *)
(* remaining stored booking overlaps that slot.                              *)
C9_NoGhostConflict ==
    (Op = "create" /\ deleted # <<>>) =>
        LET remaining == {b \in deleted[1].table : b.id # deleted[1].id}
        IN \A d \in deleted[1].table :
             ( /\ d.id = deleted[1].id
               /\ AskedStart = Start(d)
               /\ Request.body.duration_minutes = d.duration_minutes
               /\ Overlapping(remaining, AskedStart, AskedEnd, 0) = {} )
             => last.status = 200 /\ Cardinality(store) = Cardinality(remaining) + 1

\* the deleted booking's slot, of positive length, is created again beside a
\* booking that stayed
C9_Witness ==
    /\ Op = "create" /\ deleted # <<>> /\ last.status = 200
    /\ Cardinality(store) = 2
    /\ \E d \in deleted[1].table :
         /\ d.id = deleted[1].id
         /\ AskedStart = Start(d) /\ AskedEnd = End(d) /\ Start(d) < End(d)

(* C10: the offset of a request's time is dropped, the wall-clock value kept *)
(* as it is: inputs that differ in the offset alone get the same answer and  *)
(* leave the same table, the stored time is the naive wall-clock time, and a *)
(* created booking is read back with booking_time rendered to the minute of  *)
(* that wall-clock time.                                                     *)
C10_OffsetStripped ==
    /\ (Op = "create") =>
         \A tz \in Optional(Offsets) :
            LET other == [Request.body EXCEPT !.booking_time.tzinfo = tz]
                r == create_booking(prev, other)
            IN r.status = last.status /\ r.store = store
    /\ (Op = "create" /\ last.status = 200) =>
         \E b \in store \ prev :
            /\ b.booking_time = [wall |-> AskedStart, tzinfo |-> None]
            /\ last.response.booking_time = AskedStart \div SecondsPerMinute
            /\ get_booking(store, b.id).status = 200
            /\ get_booking(store, b.id).body.booking_time
                 = AskedStart \div SecondsPerMinute
    /\ (Op = "update" /\ last.status = 200 /\ Supplied("booking_time")) =>
         \A b \in TargetAfter :
            b.booking_time = [wall |-> Request.body.booking_time[1][1].wall,
                              tzinfo |-> None]

\* a booking created from 00:00:30+02:00: stored as 00:00:30, shown as 00:00
C10_Witness ==
    /\ Op = "create" /\ last.status = 200
    /\ Request.body.booking_time = [wall |-> 30, tzinfo |-> Some(120)]
    /\ last.response.booking_time = 0
    /\ \E b \in store : b.booking_time = [wall |-> 30, tzinfo |-> None]

---------------------------------------------------------------------------
(* Two requests in flight, as the claims speak of them *)

\* two stored bookings overlap that did not both stand, as they are, in the
\* table the last request committed to
NewOverlap ==
    \E A \in store : \E B \in store :
        /\ A.id # B.id
        /\ Start(A) < End(B) /\ Start(B) < End(A)
        /\ ~(A \in prev /\ B \in prev)

\* a request of another client has read the table and not yet committed
InFlight == \E c \in Clients : sessions[c].pc \in {"insert", "loaded", "checked", "delete"}

\* the value a PATCH body supplies for field f
SuppliedValue(f) ==
    IF f = "booking_time"
    THEN [wall |-> Request.body.booking_time[1][1].wall, tzinfo |-> None]
    ELSE Request.body[f][1][1]

(* C11: with two write requests in flight the overlap check does not keep    *)
(* the table free of overlaps, but only an interleaved request breaks it: a  *)
(* request that leaves two overlapping bookings of different ids in the      *)
(* table had the table changed by another request between its first read    *)
(* and its commit.                                                           *)
C11_OverlapOnlyWhenInterleaved ==
    NewOverlap => /\ read.interleaved
                  /\ Op \in {"create", "update"}
                  /\ last.status = 200

\* two creates scanned the empty table one after the other and both committed:
\* two bookings of positive length that overlap are stored
C11_Witness ==
    /\ Op = "create" /\ last.status = 200 /\ read.interleaved
    /\ Cardinality(prev) = 1 /\ Cardinality(store) = 2
    /\ \A A \in store : \A B \in store :
          A.id # B.id => /\ Start(A) < End(A) /\ Start(B) < End(B)
                         /\ Start(A) < End(B) /\ Start(B) < End(A)

(* C12: each write is one all-or-nothing commit, also for a request that     *)
(* runs while another is in flight: every stored row has its id and its four *)
(* fields; a request that fails changes nothing; a create adds its whole row *)
(* or nothing; a delete removes its row or nothing; and after an update that *)
(* supplies several fields the row has all the supplied values, or the table *)
(* is as it was.                                                             *)
C12_AllOrNothing ==
    /\ \A b \in store : DOMAIN b = Fields \cup {"id"}
    /\ last.status \notin {0, 200} => store = prev
    /\ Op = "list" => store = prev
    /\ (Op = "create" /\ last.status = 200) =>
          \E i \in Ids \ IdsOf(prev) : store = prev \cup {AskedRow(i)}
    /\ (Op = "delete" /\ last.status = 200) =>
          store = prev \ Target
    /\ (Op = "update" /\ last.status = 200) =>
          \/ store = prev
          \/ \E a \in Target : \E b \in TargetAfter :
                /\ store \ {b} = prev \ {a}
                /\ \A f \in Fields : Supplied(f) => b[f] = SuppliedValue(f)

(* C12, amended: the same, the update's part read of the columns the update  *)
(* changes.  After an update the row has, in every supplied field whose      *)
(* value differs from the value the handler loaded, the supplied value, and  *)
(* in every other field the value the table held at the commit; all of them  *)
(* are written in one step.                                                  *)
C12_ChangedColumnsTogether ==
    /\ \A b \in store : DOMAIN b = Fields \cup {"id"}
    /\ last.status \notin {0, 200} => store = prev
    /\ Op = "list" => store = prev
    /\ (Op = "create" /\ last.status = 200) =>
          \E i \in Ids \ IdsOf(prev) : store = prev \cup {AskedRow(i)}
    /\ (Op = "delete" /\ last.status = 200) =>
          store = prev \ Target
    /\ (Op = "update" /\ last.status = 200) =>
          \E loaded \in read.loaded : \E a \in Target : \E b \in TargetAfter :
             /\ store \ {b} = prev \ {a}
             /\ \A f \in Fields :
                   b[f] = IF Supplied(f) /\ SuppliedValue(f) # loaded[f]
                          THEN SuppliedValue(f)
                          ELSE a[f]

\* an update that supplies booking_time and duration_minutes, both new to the
\* row, commits while the other client's request is in flight: the row has
\* both values
C12_Witness ==
    /\ Op = "update" /\ last.status = 200
    /\ InFlight
    /\ Supplied("booking_time") /\ Supplied("duration_minutes")
    /\ \E a \in Target : \E b \in TargetAfter :
          /\ a.booking_time # b.booking_time
          /\ a.duration_minutes # b.duration_minutes
          /\ b.booking_time = SuppliedValue("booking_time")
          /\ b.duration_minutes = SuppliedValue("duration_minutes")

---------------------------------------------------------------------------
\* the public projection of a row
Projection(b) ==
    [id |-> b.id, customer_name |-> b.customer_name,
     phone_number |-> b.phone_number,
     booking_time |-> Start(b) \div SecondsPerMinute,
     duration_minutes |-> b.duration_minutes]

(* C13: the ids of the stored bookings are pairwise distinct; the id of a    *)
(* booking is given by the table at create (the body has no id) and no       *)
(* update_booking changes the id of a stored booking.                        *)
C13_IdsUniqueAndFixed ==
    /\ \A a \in store : \A b \in store : a.id = b.id => a = b
    /\ (Op = "create") => "id" \notin DOMAIN Request.body
    /\ (Op = "create" /\ last.status = 200) =>
          \E b \in store : b.id \notin IdsOf(prev) /\ store = prev \cup {b}
    /\ (Op = "update") =>
          /\ IdsOf(store) = IdsOf(prev)
          /\ \A a \in prev : a.id # Request.id => a \in store

\* a second booking is created, after the row that had the largest id was
\* deleted: the table gives the new row that id again
C13_Witness ==
    /\ Op = "create" /\ last.status = 200 /\ deleted # <<>>
    /\ Cardinality(store) = 2
    /\ \E b \in store \ prev : b.id = deleted[1].id

(* C14: a record becomes stored only through a successful create_booking and *)
(* stops being stored only through a successful delete_booking;              *)
(* list_bookings and get_booking never change the table, update_booking      *)
(* neither adds nor removes a record, and list_bookings returns exactly one  *)
(* public projection per stored booking.                                     *)
C14_Lifecycle ==
    /\ IdsOf(store) \ IdsOf(prev) # {} => (Op = "create" /\ last.status = 200)
    /\ IdsOf(prev) \ IdsOf(store) # {} => (Op = "delete" /\ last.status = 200)
    /\ (Op = "create" /\ last.status = 200) =>
          Cardinality(store) = Cardinality(prev) + 1
    /\ (Op = "delete" /\ last.status = 200) =>
          store = {b \in prev : b.id # Request.id} /\ Target # {}
    /\ Op \in {"list", "get"} => store = prev
    /\ Op = "update" => IdsOf(store) = IdsOf(prev)
    /\ Op = "list" =>
          /\ last.status = 200
          /\ Len(last.response) = Cardinality(store)
          /\ \A b \in store :
                Cardinality({i \in DOMAIN last.response :
                                last.response[i] = Projection(b)}) = 1

\* a list of a table of two bookings
C14_Witness ==
    /\ Op = "list" /\ Cardinality(store) = 2
    /\ Len(last.response) = 2

(* C15, as claimed: no two stored bookings with different ids have the same  *)
(* booking_time, whatever integer duration_minutes the schemas accept.       *)
C15_NoSharedStart ==
    \A A \in store : \A B \in store : A.id # B.id => Start(A) # Start(B)

(* C15, amended: no two stored bookings with different ids whose             *)
(* duration_minutes are both positive have the same booking_time.            *)
C15_NoSharedStartPositive ==
    \A A \in store : \A B \in store :
        (A.id # B.id /\ A.duration_minutes > 0 /\ B.duration_minutes > 0)
            => Start(A) # Start(B)

\* an update that would move a booking of positive length onto the start of
\* another one of positive length, and is rejected
C15_Witness ==
    /\ Op = "update" /\ last.status = 400
    /\ \E a \in Target : \E b \in prev :
         /\ b.id # a.id /\ b.duration_minutes > 0
         /\ EffectiveDuration(a) > 0
         /\ EffectiveStart(a) = Start(b) /\ Start(a) # Start(b)

(* C16: the conflict decision of create_booking is symmetric: creating Y     *)
(* into a table that holds only X is rejected if and only if creating X      *)
(* into a table that holds only Y is rejected.                               *)
C16_ConflictSymmetric ==
    (Op = "create" /\ last.status = 200 /\ prev = {}) =>
        \A Y \in BookingCreate :
            LET onlyY == create_booking({}, Y).store
            IN (create_booking(store, Y).status = 400)
                 <=> (create_booking(onlyY, Request.body).status = 400)

\* X alone is stored and some Y that starts before X is rejected beside it
C16_Witness ==
    /\ Op = "create" /\ last.status = 200 /\ prev = {}
    /\ \E Y \in BookingCreate :
         /\ Y.booking_time.wall < AskedStart
         /\ create_booking(store, Y).status = 400

(* C17: update_booking on an existing id with an empty body succeeds and     *)
(* leaves the whole table as it was; and a successful update_booking applied *)
(* once more succeeds again and leaves the table it made.                    *)
C17_UpdateIdempotent ==
    /\ (Op = "update" /\ Target # {} /\ \A f \in Fields : Request.body[f] = Unset)
          => (last.status = 200 /\ store = prev)
    /\ (Op = "update" /\ last.status = 200) =>
          LET again == update_booking(store, Request.id, Request.body)
          IN again.status = 200 /\ again.store = store

\* an update with an empty body, of one of two stored bookings
C17_Witness ==
    /\ Op = "update" /\ last.status = 200
    /\ \A f \in Fields : Request.body[f] = Unset
    /\ Cardinality(prev) = 2

====
